---- MODULE Spec2Model ----
(***************************************************************************)
(* Model of update_ffmpeg.py: the FFmpegUpdater class (version comparison, *)
(* the install/rollback transaction of install_ffmpeg, the update          *)
(* pipeline) and the __main__ block that turns the result into an exit     *)
(* code.                                                                   *)
(*                                                                         *)
(* Strings are sequences of one-character strings, so that split('-'),     *)
(* isdigit(), len() and the lexicographic > of Python are computed and not *)
(* assumed.  A path of the filesystem holds a tree record; the record      *)
(* with who = "none" stands for "nothing at this path".                    *)
(***************************************************************************)
EXTENDS Integers, Sequences, FiniteSets, TLC

\* ------------------------------------------------------------------ bounds

\* Longest version string drawn as an input, counted in '-'-separated tokens.
MaxTokens == 2

\* Most failures injected into one install_ffmpeg call.
MaxFaults == 2

\* len(part) == 8 in get_version_date.
DateLen == 8

\* ----------------------------------------------------------------- strings

\* Python's None for an Optional[str].
NoneV == <<"None">>

Digits == {"0", "1", "2", "3", "4", "5", "6", "7", "8", "9"}

\* Code point of a character (ord), for the characters the inputs use.
Ord(c) ==
    CASE c = "-" -> 45
      [] c = "0" -> 48 [] c = "1" -> 49 [] c = "2" -> 50 [] c = "3" -> 51
      [] c = "4" -> 52 [] c = "5" -> 53 [] c = "6" -> 54 [] c = "7" -> 55
      [] c = "8" -> 56 [] c = "9" -> 57
      [] c = "c" -> 99 [] c = "f" -> 102 [] c = "g" -> 103

\* str.split('-'): the list of maximal dash-free pieces, empty ones included;
\* ''.split('-') is [''].
RECURSIVE SplitFrom(_, _, _)
SplitFrom(s, i, cur) ==
    IF i > Len(s) THEN <<cur>>
    ELSE IF s[i] = "-" THEN <<cur>> \o SplitFrom(s, i + 1, <<>>)
    ELSE SplitFrom(s, i + 1, Append(cur, s[i]))

Split(s) == SplitFrom(s, 1, <<>>)

\* str.isdigit(): non-empty and every character a digit.
IsDigit(part) == Len(part) > 0 /\ \A i \in 1..Len(part) : part[i] \in Digits

\* The order the loop of get_version_date visits the parts in: reversed(parts).
Reversed(parts) == [i \in 1..Len(parts) |-> parts[Len(parts) + 1 - i]]

\* The for loop of get_version_date over an already ordered list of parts.
RECURSIVE FirstDate(_, _)
FirstDate(parts, i) ==
    IF i > Len(parts) THEN NoneV
    ELSE IF IsDigit(parts[i]) /\ Len(parts[i]) = DateLen THEN parts[i]
    ELSE FirstDate(parts, i + 1)

\* The loop without reversed(): the first date-shaped part wins.
get_version_date_forward(version_str) == FirstDate(Split(version_str), 1)

get_version_date(version_str) == FirstDate(Reversed(Split(version_str)), 1)

\* Python's a > b on two strings: decided at the first position where they
\* differ; a proper extension is greater than its prefix.
RECURSIVE StrGreater(_, _, _)
StrGreater(a, b, i) ==
    IF i > Len(a) THEN FALSE
    ELSE IF i > Len(b) THEN TRUE
    ELSE IF a[i] = b[i] THEN StrGreater(a, b, i + 1)
    ELSE Ord(a[i]) > Ord(b[i])

\* `not s` for an Optional[str]: None or the empty string.
Falsy(s) == s = NoneV \/ s = <<>>

compare_versions(current_version, new_version) ==
    IF Falsy(current_version) \/ Falsy(new_version) THEN TRUE
    ELSE LET current_date == get_version_date(current_version)
             new_date == get_version_date(new_version)
         IN  IF Falsy(current_date) \/ Falsy(new_date) THEN TRUE
             ELSE IF new_date = current_date THEN FALSE
             ELSE StrGreater(new_date, current_date, 1)

\* ------------------------------------------------------------ input strings

Date0101 == <<"2", "0", "2", "4", "0", "1", "0", "1">>
Date1229 == <<"2", "0", "2", "4", "1", "2", "2", "9">>
Digits7 == <<"2", "0", "2", "4", "0", "1", "0">>
Digits9 == <<"2", "0", "2", "4", "1", "2", "2", "9", "0">>
Hash8 == <<"g", "5", "f", "3", "8", "c", "8", "2">>

Tokens == {Date0101, Date1229, Digits7, Digits9, Hash8, <<>>}

RECURSIVE Join(_)
Join(parts) ==
    IF Len(parts) = 0 THEN <<>>
    ELSE IF Len(parts) = 1 THEN parts[1]
    ELSE parts[1] \o <<"-">> \o Join(Tail(parts))

TokenLists == UNION {[1..n -> Tokens] : n \in 0..MaxTokens}

\* Every version string the comparison is tried on, None included.
VersionInputs == {Join(p) : p \in TokenLists} \cup {NoneV}

\* What a binary can report as its version: the token after the word
\* 'version' is never empty and holds no white space.
ReportedVersions == {Join(<<Hash8, Date0101>>), Join(<<Hash8, Date1229>>), Hash8}

\* --------------------------------------------------------------- filesystem

\* What a path holds.  who: whose tree it is ("old": the install present
\* before the call, "new": the extracted build, "stale": a backup left by an
\* earlier run, "none": nothing at the path); complete: no file of it is
\* missing; hasBin: bin/ffmpeg exists in it; exec: every regular file directly
\* under bin is executable; carries: the tree moved INSIDE this directory
\* ("none" when there is none).
NoDir == [who |-> "none", complete |-> FALSE, hasBin |-> FALSE, exec |-> FALSE,
          carries |-> "none"]

Tree(w, hb, ex) == [who |-> w, complete |-> TRUE, hasBin |-> hb, exec |-> ex,
                    carries |-> "none"]

\* Path.exists()
Exists(t) == t.who # "none"

\* What is left of a tree when deleting or copying it stops half way.
Partial(t) == {[t EXCEPT !.complete = FALSE, !.hasBin = hb] : hb \in {t.hasBin, FALSE}}

\* shutil.rmtree(path) raising: nothing or only a part was deleted.
RmtreeFailed(t) == {t} \cup Partial(t)

\* shutil.move(src, dst) returning: a rename (or copy and delete) when dst is
\* free; when dst is an existing directory the source is moved inside it.
MoveDone(src, dst) ==
    IF Exists(dst) THEN [src |-> NoDir, dst |-> [dst EXCEPT !.carries = src.who]]
    ELSE [src |-> NoDir, dst |-> src]

\* shutil.move(src, dst) raising, dst free: the rename failed and nothing
\* changed, or the copy stopped half way (source whole, part of it at dst),
\* or the copy was made and deleting the source stopped half way.
MoveFailed(src, dst) ==
    IF Exists(dst) THEN {[src |-> src, dst |-> dst]}
    ELSE {[src |-> src, dst |-> dst]}
         \cup {[src |-> src, dst |-> p] : p \in Partial(src)}
         \cup {[src |-> p, dst |-> src] : p \in Partial(src)}

\* Lines 219-223 left out: the permissions stay as extracted.
ChmodSkipped(t) == t

\* Lines 219-223 run to the end: every regular file under bin gets 0o755.
ChmodBin(t) == IF t.hasBin THEN [t EXCEPT !.exec = TRUE] ELSE t

\* Line 199 as `if False`: no staged tree is rejected.
NeverInvalid(t) == FALSE

\* Line 199: not (source_dir / 'bin' / 'ffmpeg').exists()
InvalidStructure(t) == ~t.hasBin

\* Line 307 without `not force`.
IgnoreForce(f, cur) == ~Falsy(cur)

\* Line 307: if not force and current_version
ShouldCompare(f, cur) == ~f /\ ~Falsy(cur)

\* ------------------------------------------------------------------- state

VARIABLES
    pc,               \* the line the program is at
    mode,             \* "update": __main__ runs update(); "install": a direct
                      \* call of install_ffmpeg; "compare": compare_versions
    force,            \* args.force
    install,          \* what self.install_dir holds
    backup,           \* what the '.backup' sibling holds
    staged,           \* what source_dir / extracted_dir holds
    parent,           \* self.install_dir.parent exists
    backup_dir,       \* the local backup_dir is not None
    current_version,  \* update's current_version / compare_versions' argument
    new_version,      \* update's new_version / compare_versions' argument
    cmp,              \* the value compare_versions returned
    iret,             \* install_ffmpeg: "none" (not returned), "True", "False", "raise"
    uret,             \* update: "none", "True", "False", "raise"
    exit_code,        \* the process exit code, -1 while running
    stages,           \* the stages of update that ran, in order
    failed_stage,     \* the stage of update that reported failure, or "none"
    calls,            \* number of invocations of install_ffmpeg
    faults,           \* the steps of install_ffmpeg that raised
    pre_install,      \* install, backup, staged, parent when
    pre_backup,       \*   install_ffmpeg was entered (before that: their
    pre_staged,       \*   present values)
    pre_parent

vars == <<pc, mode, force, install, backup, staged, parent, backup_dir,
          current_version, new_version, cmp, iret, uret, exit_code, stages,
          failed_stage, calls, faults, pre_install, pre_backup, pre_staged,
          pre_parent>>

fsVars == <<install, backup, staged, parent>>
preVars == <<pre_install, pre_backup, pre_staged, pre_parent>>
verVars == <<current_version, new_version, cmp>>
runVars == <<uret, exit_code, stages, failed_stage>>

OldInstalls == {Tree("old", hb, ex) : hb \in BOOLEAN, ex \in BOOLEAN}
StaleBackups == {Tree("stale", TRUE, TRUE)}
NewTrees == {Tree("new", hb, ex) : hb \in BOOLEAN, ex \in BOOLEAN}

\* A filesystem before the call: the install directory and a backup left by
\* an interrupted earlier run are each present or not; both live in the
\* parent directory, so the parent exists when either does.
InitFs ==
    /\ install \in OldInstalls \cup {NoDir}
    /\ backup \in StaleBackups \cup {NoDir}
    /\ parent \in BOOLEAN
    /\ (Exists(install) \/ Exists(backup)) => parent

InitCommon ==
    /\ backup_dir = FALSE
    /\ iret = "none"
    /\ uret = "none"
    /\ exit_code = -1
    /\ stages = <<>>
    /\ failed_stage = "none"
    /\ calls = 0
    /\ faults = {}
    /\ cmp = FALSE
    /\ pre_install = install
    /\ pre_backup = backup
    /\ pre_staged = staged
    /\ pre_parent = parent

\* __main__ with the parsed arguments, or a caller of install_ffmpeg with a
\* source_dir that holds a tree (valid or not) or names nothing.
Init ==
    /\ InitFs
    /\ \/ /\ mode = "update"
          /\ pc = "u_probe"
          /\ force \in BOOLEAN
          /\ staged = NoDir
       \/ /\ mode = "install"
          /\ pc = "i_enter"
          /\ force = FALSE
          /\ staged \in NewTrees \cup {NoDir}
    /\ current_version = NoneV
    /\ new_version = NoneV
    /\ InitCommon

\* ---------------------------------------------------------- install_ffmpeg

\* A step of the try body may raise while fewer than MaxFaults steps have.
MayFail == Cardinality(faults) < MaxFaults

\* The call itself (line 315, or a direct caller): the arguments are bound.
InstallEnter ==
    /\ pc = "i_enter"
    /\ pc' = "i_check"
    /\ calls' = calls + 1
    /\ stages' = Append(stages, "install")
    /\ pre_install' = install
    /\ pre_backup' = backup
    /\ pre_staged' = staged
    /\ pre_parent' = parent
    /\ UNCHANGED <<mode, force, fsVars, backup_dir, verVars, iret, uret,
                   exit_code, failed_stage, faults>>

\* Lines 198-201: the structure check, before anything is touched.
InstallCheck ==
    /\ pc = "i_check"
    /\ IF InvalidStructure(staged)
       THEN /\ iret' = "False"
            /\ pc' = "i_return"
       ELSE /\ iret' = iret
            /\ pc' = "i_backup"
    /\ UNCHANGED <<mode, force, fsVars, backup_dir, verVars, runVars, calls,
                   faults, preVars>>

\* Lines 204-207: backup_dir = None; it is set only when install_dir exists.
InstallBackupDecide ==
    /\ pc = "i_backup"
    /\ backup_dir' = Exists(install)
    /\ pc' = IF ~Exists(install) THEN "i_mkdir"
             ELSE IF Exists(backup) THEN "i_rm_stale"
             ELSE "i_move_out"
    /\ UNCHANGED <<mode, force, fsVars, verVars, iret, runVars, calls, faults,
                   preVars>>

\* Line 208: shutil.rmtree(backup_dir) of a prior backup.
InstallRmStale ==
    /\ pc = "i_rm_stale"
    /\ \/ /\ backup' = NoDir
          /\ pc' = "i_move_out"
          /\ faults' = faults
       \/ /\ MayFail
          /\ backup' \in RmtreeFailed(backup)
          /\ pc' = "h_check"
          /\ faults' = faults \cup {"rm_stale"}
    /\ UNCHANGED <<mode, force, install, staged, parent, backup_dir, verVars,
                   iret, runVars, calls, preVars>>

\* Line 210: shutil.move(install_dir, backup_dir).
InstallMoveOut ==
    /\ pc = "i_move_out"
    /\ \/ /\ install' = MoveDone(install, backup).src
          /\ backup' = MoveDone(install, backup).dst
          /\ pc' = "i_mkdir"
          /\ faults' = faults
       \/ /\ MayFail
          /\ \E r \in MoveFailed(install, backup) :
                /\ install' = r.src
                /\ backup' = r.dst
          /\ pc' = "h_check"
          /\ faults' = faults \cup {"move_out"}
    /\ UNCHANGED <<mode, force, staged, parent, backup_dir, verVars, iret,
                   runVars, calls, preVars>>

\* Line 213: install_dir.parent.mkdir(parents=True, exist_ok=True).
InstallMkdir ==
    /\ pc = "i_mkdir"
    /\ \/ /\ parent' = TRUE
          /\ pc' = "i_move_in"
          /\ faults' = faults
       \/ /\ MayFail
          /\ parent' = parent
          /\ pc' = "h_check"
          /\ faults' = faults \cup {"mkdir"}
    /\ UNCHANGED <<mode, force, install, backup, staged, backup_dir, verVars,
                   iret, runVars, calls, preVars>>

\* Line 216: shutil.move(source_dir, install_dir).
InstallMoveIn ==
    /\ pc = "i_move_in"
    /\ \/ /\ staged' = MoveDone(staged, install).src
          /\ install' = MoveDone(staged, install).dst
          /\ pc' = "i_chmod"
          /\ faults' = faults
       \/ /\ MayFail
          /\ \E r \in MoveFailed(staged, install) :
                /\ staged' = r.src
                /\ install' = r.dst
          /\ pc' = "h_check"
          /\ faults' = faults \cup {"move_in"}
    /\ UNCHANGED <<mode, force, backup, parent, backup_dir, verVars, iret,
                   runVars, calls, preVars>>

\* Lines 219-223: chmod 0o755 on every regular file of install_dir/bin; a
\* chmod that raises leaves the files before it changed, those after it not.
InstallChmod ==
    /\ pc = "i_chmod"
    /\ \/ /\ install' = ChmodBin(install)
          /\ pc' = "i_rm_backup"
          /\ faults' = faults
       \/ /\ MayFail
          /\ install' = install
          /\ pc' = "h_check"
          /\ faults' = faults \cup {"chmod"}
    /\ UNCHANGED <<mode, force, backup, staged, parent, backup_dir, verVars,
                   iret, runVars, calls, preVars>>

\* Lines 228-229 as a no-op: the backup is kept.
KeepBackupOnSuccess ==
    /\ backup' = backup
    /\ iret' = "True"
    /\ pc' = "i_return"
    /\ faults' = faults

\* Lines 228-232: the backup is deleted when there is one, then return True.
RemoveBackupOnSuccess ==
    IF backup_dir /\ Exists(backup)
    THEN \/ /\ backup' = NoDir
            /\ iret' = "True"
            /\ pc' = "i_return"
            /\ faults' = faults
         \/ /\ MayFail
            /\ backup' \in RmtreeFailed(backup)
            /\ iret' = iret
            /\ pc' = "h_check"
            /\ faults' = faults \cup {"rm_backup"}
    ELSE /\ backup' = backup
         /\ iret' = "True"
         /\ pc' = "i_return"
         /\ faults' = faults

InstallRmBackup ==
    /\ pc = "i_rm_backup"
    /\ RemoveBackupOnSuccess
    /\ UNCHANGED <<mode, force, install, staged, parent, backup_dir, verVars,
                   runVars, calls, preVars>>

\* Line 238 as `if False`: the handler never restores.
NeverRestore == FALSE

\* Line 238: if backup_dir and backup_dir.exists()
RestoreWanted == backup_dir /\ Exists(backup)

\* Lines 234-238 and 244: the except clause; without a backup it returns False.
HandlerCheck ==
    /\ pc = "h_check"
    /\ IF RestoreWanted
       THEN /\ pc' = "h_rm_install"
            /\ iret' = iret
       ELSE /\ pc' = "i_return"
            /\ iret' = "False"
    /\ UNCHANGED <<mode, force, fsVars, backup_dir, verVars, runVars, calls,
                   faults, preVars>>

\* Lines 239-240: whatever is at the install path is deleted.  An exception
\* raised here is raised inside the except clause and leaves install_ffmpeg.
HandlerRmInstall ==
    /\ pc = "h_rm_install"
    /\ IF Exists(install)
       THEN \/ /\ install' = NoDir
               /\ pc' = "h_move_back"
               /\ UNCHANGED <<iret, faults>>
            \/ /\ MayFail
               /\ install' \in RmtreeFailed(install)
               /\ pc' = "i_return"
               /\ iret' = "raise"
               /\ faults' = faults \cup {"h_rm_install"}
       ELSE /\ pc' = "h_move_back"
            /\ UNCHANGED <<install, iret, faults>>
    /\ UNCHANGED <<mode, force, backup, staged, parent, backup_dir, verVars,
                   runVars, calls, preVars>>

\* Lines 241-244: the backup is moved back and False is returned.
HandlerMoveBack ==
    /\ pc = "h_move_back"
    /\ \/ /\ backup' = MoveDone(backup, install).src
          /\ install' = MoveDone(backup, install).dst
          /\ iret' = "False"
          /\ faults' = faults
       \/ /\ MayFail
          /\ \E r \in MoveFailed(backup, install) :
                /\ backup' = r.src
                /\ install' = r.dst
          /\ iret' = "raise"
          /\ faults' = faults \cup {"h_move_back"}
    /\ pc' = "i_return"
    /\ UNCHANGED <<mode, force, staged, parent, backup_dir, verVars, runVars,
                   calls, preVars>>

\* Control is back in the caller: update (line 315) or the direct caller.
InstallReturn ==
    /\ pc = "i_return"
    /\ pc' = IF mode = "update" THEN "u_after_install" ELSE "done"
    /\ UNCHANGED <<mode, force, fsVars, backup_dir, verVars, iret, runVars,
                   calls, faults, preVars>>

InstallNext ==
    \/ InstallEnter
    \/ InstallCheck
    \/ InstallBackupDecide
    \/ InstallRmStale
    \/ InstallMoveOut
    \/ InstallMkdir
    \/ InstallMoveIn
    \/ InstallChmod
    \/ InstallRmBackup
    \/ HandlerCheck
    \/ HandlerRmInstall
    \/ HandlerMoveBack
    \/ InstallReturn

\* ------------------------------------------------------------------ update

\* get_current_version (lines 42-75, called at line 285): None when the
\* binary is absent, exits non-zero, times out or prints no version; every
\* exception is caught.
UpdateProbeCurrent ==
    /\ pc = "u_probe"
    /\ current_version' \in
          IF install.hasBin THEN ReportedVersions \cup {NoneV} ELSE {NoneV}
    /\ stages' = Append(stages, "probe")
    /\ pc' = "u_download"
    /\ UNCHANGED <<mode, force, fsVars, backup_dir, new_version, cmp, iret,
                   uret, exit_code, failed_stage, calls, faults, preVars>>

\* download_ffmpeg (lines 77-111, called at lines 291-293).  A
\* requests.RequestException and a file under 1 MiB give None; an OSError
\* from open() or f.write() is not a RequestException and leaves the function.
UpdateDownload ==
    /\ pc = "u_download"
    /\ stages' = Append(stages, "download")
    /\ \/ /\ pc' = "u_extract"
          /\ UNCHANGED <<uret, failed_stage>>
       \/ /\ pc' = "u_exit"
          /\ uret' = "False"
          /\ failed_stage' = "download"
       \/ /\ pc' = "u_exit"
          /\ uret' = "raise"
          /\ failed_stage' = "download"
    /\ UNCHANGED <<mode, force, fsVars, backup_dir, verVars, iret, exit_code,
                   calls, faults, preVars>>

\* extract_ffmpeg (lines 113-142, called at lines 296-298): tar fails or no
\* directory named *ffmpeg* is found -> None; otherwise the extracted tree.
UpdateExtract ==
    /\ pc = "u_extract"
    /\ stages' = Append(stages, "extract")
    /\ \/ /\ staged' \in NewTrees
          /\ pc' = "u_probe_new"
          /\ UNCHANGED <<uret, failed_stage>>
       \/ /\ staged' = staged
          /\ pc' = "u_exit"
          /\ uret' = "False"
          /\ failed_stage' = "extract"
    /\ UNCHANGED <<mode, force, install, backup, parent, backup_dir, verVars,
                   iret, exit_code, calls, faults, preVars>>

\* get_extracted_version (lines 144-173, called at lines 301-304): None when
\* bin/ffmpeg is missing or reports no version.
UpdateProbeNew ==
    /\ pc = "u_probe_new"
    /\ stages' = Append(stages, "probe_new")
    /\ new_version' \in
          IF staged.hasBin THEN ReportedVersions \cup {NoneV} ELSE {NoneV}
    /\ IF Falsy(new_version')
       THEN /\ pc' = "u_exit"
            /\ uret' = "False"
            /\ failed_stage' = "probe_new"
       ELSE /\ pc' = "u_compare"
            /\ UNCHANGED <<uret, failed_stage>>
    /\ UNCHANGED <<mode, force, fsVars, backup_dir, current_version, cmp,
                   iret, exit_code, calls, faults, preVars>>

\* Lines 306-310: the comparison is made only without --force and with a
\* known current version; "not newer" returns True without installing.
UpdateCompare ==
    /\ pc = "u_compare"
    /\ IF ShouldCompare(force, current_version)
       THEN /\ stages' = Append(stages, "compare")
            /\ cmp' = compare_versions(current_version, new_version)
            /\ IF cmp'
               THEN /\ pc' = "i_enter"
                    /\ uret' = uret
               ELSE /\ pc' = "u_exit"
                    /\ uret' = "True"
       ELSE /\ pc' = "i_enter"
            /\ UNCHANGED <<stages, cmp, uret>>
    /\ UNCHANGED <<mode, force, fsVars, backup_dir, current_version,
                   new_version, iret, exit_code, failed_stage, calls, faults,
                   preVars>>

\* Lines 315-332: success = self.install_ffmpeg(...); return success.  An
\* exception out of install_ffmpeg is not caught by update.
UpdateAfterInstall ==
    /\ pc = "u_after_install"
    /\ uret' = iret
    /\ pc' = "u_exit"
    /\ UNCHANGED <<mode, force, fsVars, backup_dir, verVars, iret, exit_code,
                   stages, failed_stage, calls, faults, preVars>>

\* Leaving the with block of line 287 deletes the temporary directory; lines
\* 344-353: exit(0 if success else 1), and exit(1) on any exception.
MainExit ==
    /\ pc = "u_exit"
    /\ staged' = NoDir
    /\ exit_code' = IF uret = "True" THEN 0 ELSE 1
    /\ pc' = "done"
    /\ UNCHANGED <<mode, force, install, backup, parent, backup_dir, verVars,
                   iret, uret, stages, failed_stage, calls, faults, preVars>>

UpdateNext ==
    \/ UpdateProbeCurrent
    \/ UpdateDownload
    \/ UpdateExtract
    \/ UpdateProbeNew
    \/ UpdateCompare
    \/ UpdateAfterInstall
    \/ MainExit

Next == InstallNext \/ UpdateNext

Spec == Init /\ [][Next]_vars

\* -------------------------------------------------- compare_versions alone

\* A caller of compare_versions with any two version strings.
InitCompare ==
    /\ mode = "compare"
    /\ pc = "c_call"
    /\ force = FALSE
    /\ install = NoDir
    /\ backup = NoDir
    /\ staged = NoDir
    /\ parent = TRUE
    /\ current_version \in VersionInputs
    /\ new_version \in VersionInputs
    /\ InitCommon

\* Lines 175-193.
CompareCall ==
    /\ pc = "c_call"
    /\ cmp' = compare_versions(current_version, new_version)
    /\ pc' = "c_done"
    /\ UNCHANGED <<mode, force, fsVars, backup_dir, current_version,
                   new_version, iret, runVars, calls, faults, preVars>>

NextCompare == CompareCall

SpecCompare == InitCompare /\ [][NextCompare]_vars

\* ------------------------------------------------------------------ claims

\* install_ffmpeg has returned a value or raised.
InstallEnded == iret # "none"

\* install_ffmpeg has returned a value.
InstallReturned == iret \in {"True", "False"}

\* The install path holds the whole staged tree itself, made executable.
HoldsStagedTree == install = [pre_staged EXCEPT !.exec = TRUE]

\* The install path holds a whole new build, nothing nested in it.
HoldsNewInstall ==
    install.who = "new" /\ install.complete /\ install.carries = "none"

\* C1: a call of install_ffmpeg with a staged tree that has no bin/ffmpeg
\* returns False and changes nothing: the install directory, the backup path,
\* the parent directory and the staged tree are as they were at the call.
C1_InvalidPackageNoChange ==
    (calls = 1 /\ pc # "i_check" /\ ~pre_staged.hasBin)
        => /\ iret = "False"
           /\ install = pre_install
           /\ backup = pre_backup
           /\ staged = pre_staged
           /\ parent = pre_parent

C1_Witness ==
    /\ pc = "done"
    /\ calls = 1
    /\ ~pre_staged.hasBin
    /\ Exists(pre_install)
    /\ Exists(pre_backup)
    /\ iret = "False"

\* C2: with an existing install and a valid staged tree, one failure in the
\* parent-directory creation, the move of the staged tree or the permission
\* step makes the call return False with the install path holding what it
\* held before the call and nothing at the backup path.
C2_RollbackRoundTrip ==
    (/\ InstallEnded
     /\ Exists(pre_install)
     /\ pre_staged.hasBin
     /\ faults # {}
     /\ faults \subseteq {"mkdir", "move_in", "chmod"})
        => /\ iret = "False"
           /\ install = pre_install
           /\ ~Exists(backup)

C2_Witness ==
    /\ pc = "done"
    /\ faults = {"move_in"}
    /\ Exists(pre_install)
    /\ iret = "False"
    /\ install = pre_install
    /\ ~staged.complete

\* C3 as stated: whenever install_ffmpeg returns True the install path holds
\* the staged tree itself with bin/ffmpeg present and every file of bin
\* executable; and a call without failures that finds no directory at the
\* install path and a valid staged tree returns True and leaves no directory
\* at the backup path.
C3_Original ==
    /\ (iret = "True") => (HoldsStagedTree /\ HoldsNewInstall /\ install.hasBin)
    /\ (InstallEnded /\ ~Exists(pre_install) /\ pre_staged.hasBin /\ faults = {})
          => (iret = "True" /\ ~Exists(backup))

\* C3 as amended: the same, the absence of a backup directory after a
\* first-time install being claimed only when none was there before the call.
C3_InstalledTree ==
    /\ (iret = "True") => (HoldsStagedTree /\ HoldsNewInstall /\ install.hasBin)
    /\ (InstallEnded /\ ~Exists(pre_install) /\ pre_staged.hasBin /\ faults = {})
          => (iret = "True" /\ (~Exists(pre_backup) => ~Exists(backup)))

C3_Witness ==
    /\ pc = "done"
    /\ iret = "True"
    /\ ~Exists(pre_install)
    /\ ~Exists(pre_backup)
    /\ ~pre_staged.exec
    /\ install.exec
    /\ install.hasBin
    /\ ~Exists(backup)

\* The date of a version string as the claim words it, read off the string
\* itself: the last stretch of exactly DateLen digits that is bounded by '-'
\* or the ends of the string.
DateStarts(s) ==
    {i \in 1..Len(s) :
        /\ i + DateLen - 1 <= Len(s)
        /\ \A k \in i..(i + DateLen - 1) : s[k] \in Digits
        /\ (i = 1 \/ s[i - 1] = "-")
        /\ (i + DateLen - 1 = Len(s) \/ s[i + DateLen] = "-")}

LastDateStart(s) == CHOOSE i \in DateStarts(s) : \A j \in DateStarts(s) : j <= i

RECURSIVE NumValue(_, _, _)
NumValue(s, i, n) ==
    IF n = 0 THEN 0 ELSE NumValue(s, i, n - 1) * 10 + (Ord(s[i + n - 1]) - Ord("0"))

DateNumber(s) == NumValue(s, LastDateStart(s), DateLen)

ExpectedComparison(cur, new) ==
    IF cur = NoneV \/ new = NoneV \/ Len(cur) = 0 \/ Len(new) = 0 THEN TRUE
    ELSE IF DateStarts(cur) = {} \/ DateStarts(new) = {} THEN TRUE
    ELSE IF DateNumber(new) = DateNumber(cur) THEN FALSE
    ELSE DateNumber(new) > DateNumber(cur)

\* C4: compare_versions returns True when either string is empty or None,
\* else True when either has no date (the last '-'-separated token of exactly
\* 8 digits), else False for equal dates, else whether the new date is the
\* greater one.
C4_CompareVersions ==
    (pc = "c_done") => (cmp = ExpectedComparison(current_version, new_version))

C4_Witness ==
    /\ pc = "c_done"
    /\ current_version = Join(<<Date0101, Date1229>>)
    /\ new_version = Join(<<Date1229, Date0101>>)
    /\ cmp = FALSE

\* C5: in a run of update whose download, extraction and version probe
\* succeeded: without --force, with a known current version and a build that
\* compare_versions reports as not newer, install_ffmpeg is not invoked, the
\* install directory is unchanged and update returns True (exit code 0); with
\* --force or an unknown current version install_ffmpeg is invoked exactly
\* once and update returns what it returned (exit code 0 for True, 1 for
\* False).
C5_CompareGatesInstall ==
    (pc = "done" /\ mode = "update" /\ failed_stage = "none")
        => /\ (/\ ~force
               /\ ~Falsy(current_version)
               /\ ~compare_versions(current_version, new_version))
                  => /\ calls = 0
                     /\ install = pre_install
                     /\ uret = "True"
                     /\ exit_code = 0
           /\ (force \/ Falsy(current_version))
                  => /\ calls = 1
                     /\ InstallReturned =>
                           /\ uret = iret
                           /\ exit_code = (IF iret = "True" THEN 0 ELSE 1)

C5_Witness ==
    /\ pc = "done"
    /\ mode = "update"
    /\ force
    /\ current_version = Join(<<Hash8, Date1229>>)
    /\ new_version = Join(<<Hash8, Date0101>>)
    /\ calls = 1
    /\ uret = "True"
    /\ exit_code = 0

StageOrder == <<"probe", "download", "extract", "probe_new", "compare", "install">>

StagePos(st) == CHOOSE i \in 1..Len(StageOrder) : StageOrder[i] = st

StagesInOrder ==
    \A i \in 1..Len(stages) : \A j \in 1..Len(stages) :
        i < j => StagePos(stages[i]) < StagePos(stages[j])

Ran(st) == \E i \in 1..Len(stages) : stages[i] = st

\* C6: the stages of update run in the order probe, download, extract, probe
\* of the extracted build, compare, install; when the download, the
\* extraction or the probe of the extracted build fails no later stage runs,
\* install_ffmpeg is not invoked, the install and backup paths are as before
\* the run and update returns False; install_ffmpeg is invoked only after
\* all three succeeded.
C6_Original ==
    mode = "update" =>
        /\ StagesInOrder
        /\ (pc = "done" /\ failed_stage # "none")
              => /\ stages[Len(stages)] = failed_stage
                 /\ calls = 0
                 /\ install = pre_install
                 /\ backup = pre_backup
                 /\ uret = "False"
        /\ (calls > 0)
              => /\ failed_stage = "none"
                 /\ Ran("download") /\ Ran("extract") /\ Ran("probe_new")

\* C7: a call of install_ffmpeg that starts with an existing install ends by
\* returning True or False, a call that returns False leaves the install
\* path holding what it held before the call, and the contents of a stale
\* backup never end up at the install path.
C7_Original ==
    (InstallEnded /\ Exists(pre_install))
        => /\ InstallReturned
           /\ (iret = "False") => (install = pre_install)
           /\ install.who # "stale"

\* C8: throughout a call of install_ffmpeg that starts with an existing
\* install, the install path holds the whole old install or a whole new one,
\* or else the backup path holds the whole old install.
C8_Original ==
    (calls >= 1 /\ Exists(pre_install))
        => \/ install = pre_install
           \/ HoldsNewInstall
           \/ backup = pre_install

\* C9 as stated: whatever the starting filesystem, no directory is at the
\* backup path when install_ffmpeg has returned.
C9_Original == InstallReturned => ~Exists(backup)

\* C9 as amended: no directory is at the backup path when install_ffmpeg has
\* returned, provided none was there before the call or the call found an
\* install directory and a valid staged tree; a directory that was at the
\* backup path before any other call is still there, untouched.
C9_BackupGone ==
    InstallReturned =>
        IF ~Exists(pre_backup) \/ (Exists(pre_install) /\ pre_staged.hasBin)
        THEN ~Exists(backup)
        ELSE backup = pre_backup

C9_Witness ==
    /\ pc = "done"
    /\ iret = "True"
    /\ Exists(pre_install)
    /\ Exists(pre_backup)
    /\ ~Exists(backup)

\* C10: no stage raises: whatever failure is injected, install_ffmpeg and
\* update end by returning, and update returns False after a failure.
C10_Original ==
    (pc = "done")
        => /\ iret # "raise"
           /\ uret # "raise"
           /\ (mode = "update" /\ (failed_stage # "none" \/ faults # {}))
                 => uret = "False"
====
